---- MODULE Spec2Model ----
(***************************************************************************)
(* Model of src/src/calculate_raster_stats.py: the grid tiler              *)
(* (create_windows), the nodata-aware per-window reduction and the         *)
(* module-level script that fetches the raster location, opens the raster, *)
(* tiles it, reads every window and writes one CSV row per window read.    *)
(*                                                                         *)
(* Conventions.                                                            *)
(*  - A Python value that may be None is a set: {} is None, {v} is v.      *)
(*  - A window array is the flattened (row-major) sequence of its pixels;  *)
(*    min, max and mean do not depend on the 2-D shape.                    *)
(*  - The rounded mean round(x, 2) is held as an integer number of         *)
(*    hundredths (5000 is 50.0).                                           *)
(*  - rasterio's Window is a record of the four values passed to it; its    *)
(*    constructor is library code, and for a negative width or height      *)
(*    both outcomes are kept: the record, or a ValueError.                 *)
(***************************************************************************)
EXTENDS Integers, Sequences, FiniteSets

VARIABLES
    pc,            \* position of the run
    exc,           \* the unhandled exception that ended the run, "none" if none
    dataset,       \* the raster: [height, width, nodata]
    nb_of_rows,    \* create_windows argument
    nb_of_cols,    \* create_windows argument
    windows,       \* result of create_windows (<<>> while unbound)
    nodata_value,  \* dataset.nodata as read at line 77
    id,            \* the id counter of line 80
    file,          \* treecover_stats.csv: [created, open, header, rows]
    wind_pos,      \* number of windows the for loop has taken so far
    stdout,        \* what the loop printed: windows and read errors
    array,         \* the array of the last successful read
    min_cover,     \* statistics of the last reduction
    max_cover,
    avg_cover

vars == <<pc, exc, dataset, nb_of_rows, nb_of_cols, windows, nodata_value, id,
          file, wind_pos, stdout, array, min_cover, max_cover, avg_cover>>

(***************************************************************************)
(* Bounds of the model.                                                    *)
(***************************************************************************)
\* raster extents explored for create_windows on its own
MaxHeight == 5
MaxWidth == 5
\* grid shapes explored for create_windows on its own (larger than the
\* extents, so that degenerate grids occur)
MaxNbRows == 6
MaxNbCols == 6
\* grid shape the script passes to create_windows (8 x 8 in the source,
\* scaled down)
NbOfRows == 2
NbOfCols == 2
\* raster extents explored for the script: NbOfRows..MaxRasterHeight etc.
MaxRasterHeight == 3
MaxRasterWidth == 3
\* longest window array explored for the reduction on its own
MaxArrayLen == 4

\* pixel values explored for the reduction on its own
SamplePixels == {0, 1, 100, 255}
\* nodata sentinels explored for the reduction on its own ({} is None)
SampleNodata == {{}, {255}, {0}}
\* what a successful window read may return in the script
ReadArrays == {<<>>, <<255, 255>>, <<255, 100>>, <<100, 100>>}
\* the nodata value of the raster the script opens (255.0 in the source)
RasterNodata == {255}

None == {}

(***************************************************************************)
(* create_windows                                                          *)
(***************************************************************************)
\* rasterio.windows.Window(col_off, row_off, width, height)
Window(col_off, row_off, width, height) ==
    [col_off |-> col_off, row_off |-> row_off, width |-> width, height |-> height]

FloorDiv(a, b) ==
    a \div b

\* math.ceil(a / b) for a >= 0, b > 0
Ceil(a, b) ==
    (a + b - 1) \div b

HeightValNoAdjust(ds, nb_rows, i, tile_height) ==
    tile_height

\* lines 56-59: height of a window of grid row i
HeightVal(ds, nb_rows, i, tile_height) ==
    IF i = nb_rows - 1 THEN ds.height - i * tile_height ELSE tile_height

\* lines 61-64: width of a window of grid column j
WidthVal(ds, nb_cols, j, tile_width) ==
    IF j = nb_cols - 1 THEN ds.width - j * tile_width ELSE tile_width

\* lines 52-67: the window of grid row i, grid column j
GridWindow(ds, nb_rows, nb_cols, tile_height, tile_width, i, j) ==
    Window(j * tile_width, i * tile_height,
           WidthVal(ds, nb_cols, j, tile_width),
           HeightVal(ds, nb_rows, i, tile_height))

RECURSIVE InnerLoop(_, _, _, _, _, _, _, _)
\* line 51: for j in range(nb_of_cols), appending to windows_list
InnerLoop(ds, nb_rows, nb_cols, tile_height, tile_width, i, j, windows_list) ==
    IF j >= nb_cols THEN windows_list
    ELSE InnerLoop(ds, nb_rows, nb_cols, tile_height, tile_width, i, j + 1,
                   Append(windows_list,
                          GridWindow(ds, nb_rows, nb_cols, tile_height, tile_width, i, j)))

RECURSIVE OuterLoop(_, _, _, _, _, _, _)
\* line 50: for i in range(nb_of_rows)
OuterLoop(ds, nb_rows, nb_cols, tile_height, tile_width, i, windows_list) ==
    IF i >= nb_rows THEN windows_list
    ELSE OuterLoop(ds, nb_rows, nb_cols, tile_height, tile_width, i + 1,
                   InnerLoop(ds, nb_rows, nb_cols, tile_height, tile_width, i, 0,
                             windows_list))

RECURSIVE ColumnFirstInner(_, _, _, _, _, _, _, _)
ColumnFirstInner(ds, nb_rows, nb_cols, tile_height, tile_width, i, j, windows_list) ==
    IF i >= nb_rows THEN windows_list
    ELSE ColumnFirstInner(ds, nb_rows, nb_cols, tile_height, tile_width, i + 1, j,
                   Append(windows_list,
                          GridWindow(ds, nb_rows, nb_cols, tile_height, tile_width, i, j)))

RECURSIVE ColumnFirstOuter(_, _, _, _, _, _, _)
ColumnFirstOuter(ds, nb_rows, nb_cols, tile_height, tile_width, j, windows_list) ==
    IF j >= nb_cols THEN windows_list
    ELSE ColumnFirstOuter(ds, nb_rows, nb_cols, tile_height, tile_width, j + 1,
                   ColumnFirstInner(ds, nb_rows, nb_cols, tile_height, tile_width, 0, j,
                                    windows_list))

CreateWindowsColumnFirst(ds, nb_rows, nb_cols) ==
    ColumnFirstOuter(ds, nb_rows, nb_cols,
                     Ceil(ds.height, nb_rows), Ceil(ds.width, nb_cols), 0, <<>>)

\* lines 34-69
CreateWindows(ds, nb_rows, nb_cols) ==
    OuterLoop(ds, nb_rows, nb_cols,
              Ceil(ds.height, nb_rows), Ceil(ds.width, nb_cols), 0, <<>>)

(***************************************************************************)
(* The per-window reduction, lines 95-103                                  *)
(***************************************************************************)
\* line 95: np.where(array == nodata_value, np.nan, array); the entries that
\* are not NaN afterwards (with nodata None nothing compares equal)
ValidPixels(arr, nodata) ==
    SelectSeq(arr, LAMBDA p : p \notin nodata)

\* line 98: np.all(np.isnan(array_masked))
AllNan(arr, nodata) ==
    Len(ValidPixels(arr, nodata)) = 0

RECURSIVE SeqSum(_)
SeqSum(s) ==
    IF s = <<>> THEN 0 ELSE Head(s) + SeqSum(Tail(s))

\* line 101: np.nanmin
NanMin(arr, nodata) ==
    LET v == ValidPixels(arr, nodata)
    IN  CHOOSE m \in {v[k] : k \in 1..Len(v)} : \A k \in 1..Len(v) : m <= v[k]

\* line 102: np.nanmax
NanMax(arr, nodata) ==
    LET v == ValidPixels(arr, nodata)
    IN  CHOOSE m \in {v[k] : k \in 1..Len(v)} : \A k \in 1..Len(v) : m >= v[k]

\* round(num / den, 2) in hundredths, ties to the even hundredth
Round2(num, den) ==
    LET q == (100 * num) \div den
        r == (100 * num) % den
    IN  IF 2 * r < den THEN q
        ELSE IF 2 * r > den THEN q + 1
        ELSE IF q % 2 = 0 THEN q ELSE q + 1

NanMeanOverWindow(arr, nodata) ==
    Round2(SeqSum(ValidPixels(arr, nodata)), Len(arr))

\* line 103: round(np.nanmean(array_masked), 2)
NanMean(arr, nodata) ==
    LET v == ValidPixels(arr, nodata)
    IN  Round2(SeqSum(v), Len(v))

ReduceAnyNan(arr, nodata) ==
    IF Len(arr) = 0 \/ Len(ValidPixels(arr, nodata)) < Len(arr)
    THEN [min_cover |-> None, max_cover |-> None, avg_cover |-> None]
    ELSE [min_cover |-> {NanMin(arr, nodata)},
          max_cover |-> {NanMax(arr, nodata)},
          avg_cover |-> {NanMean(arr, nodata)}]

\* lines 95-103
Reduce(arr, nodata) ==
    IF AllNan(arr, nodata)
    THEN [min_cover |-> None, max_cover |-> None, avg_cover |-> None]
    ELSE [min_cover |-> {NanMin(arr, nodata)},
          max_cover |-> {NanMax(arr, nodata)},
          avg_cover |-> {NanMean(arr, nodata)}]

\* line 96 and line 105: the CSV data row of a window
CsvRow(n, st) ==
    [array |-> n, minimum_cover |-> st.min_cover,
     maximum_cover |-> st.max_cover, average_cover |-> st.avg_cover]

(***************************************************************************)
(* The script                                                              *)
(***************************************************************************)
NoFile == [created |-> FALSE, open |-> FALSE, header |-> FALSE, rows |-> <<>>]

\* the Python variables that are unbound before the with block
Unbound ==
    /\ windows = <<>>
    /\ nodata_value = None
    /\ id = 0
    /\ file = NoFile
    /\ wind_pos = 0
    /\ stdout = <<>>
    /\ array = <<>>
    /\ min_cover = None
    /\ max_cover = None
    /\ avg_cover = None

\* the state when the script starts: the remote raster is some raster at least
\* as large as the grid the script asks for
Init ==
    /\ pc = "s3_fetch"
    /\ exc = "none"
    /\ dataset \in [height : NbOfRows..MaxRasterHeight,
                    width : NbOfCols..MaxRasterWidth,
                    nodata : {RasterNodata}]
    /\ nb_of_rows = NbOfRows
    /\ nb_of_cols = NbOfCols
    /\ Unbound

\* lines 22-28 succeed
S3FetchOk ==
    /\ pc = "s3_fetch"
    /\ pc' = "raster_open"
    /\ UNCHANGED <<exc, dataset, nb_of_rows, nb_of_cols, windows, nodata_value, id,
                   file, wind_pos, stdout, array, min_cover, max_cover, avg_cover>>

S3FetchFailContinues ==
    /\ pc = "s3_fetch"
    /\ pc' = "raster_open"
    /\ exc' = "s3_fetch"
    /\ UNCHANGED <<dataset, nb_of_rows, nb_of_cols, windows, nodata_value, id,
                   file, wind_pos, stdout, array, min_cover, max_cover, avg_cover>>

\* lines 22-28 raise (get_object, read_csv or the column lookup): nothing
\* catches the exception
S3FetchFail ==
    /\ pc = "s3_fetch"
    /\ pc' = "aborted"
    /\ exc' = "s3_fetch"
    /\ UNCHANGED <<dataset, nb_of_rows, nb_of_cols, windows, nodata_value, id,
                   file, wind_pos, stdout, array, min_cover, max_cover, avg_cover>>

\* line 73 succeeds
RasterOpenOk ==
    /\ pc = "raster_open"
    /\ pc' = "create_windows"
    /\ UNCHANGED <<exc, dataset, nb_of_rows, nb_of_cols, windows, nodata_value, id,
                   file, wind_pos, stdout, array, min_cover, max_cover, avg_cover>>

\* line 73 raises: nothing catches the exception
RasterOpenFail ==
    /\ pc = "raster_open"
    /\ pc' = "aborted"
    /\ exc' = "raster_open"
    /\ UNCHANGED <<dataset, nb_of_rows, nb_of_cols, windows, nodata_value, id,
                   file, wind_pos, stdout, array, min_cover, max_cover, avg_cover>>

\* line 75 (and the call of lines 34-69)
CallCreateWindows ==
    /\ pc = "create_windows"
    /\ windows' = CreateWindows(dataset, nb_of_rows, nb_of_cols)
    /\ pc' = "csv_open"
    /\ UNCHANGED <<exc, dataset, nb_of_rows, nb_of_cols, nodata_value, id,
                   file, wind_pos, stdout, array, min_cover, max_cover, avg_cover>>

\* lines 77-84: nodata value, id counter, the CSV file and its header line
CsvOpen ==
    /\ pc = "csv_open"
    /\ nodata_value' = dataset.nodata
    /\ id' = 1
    /\ file' = [created |-> TRUE, open |-> TRUE, header |-> TRUE, rows |-> <<>>]
    /\ pc' = "loop"
    /\ UNCHANGED <<exc, dataset, nb_of_rows, nb_of_cols, windows,
                   wind_pos, stdout, array, min_cover, max_cover, avg_cover>>

\* line 87: print(wind)
PrintWindow(wind) ==
    [kind |-> "window", wind |-> wind]

\* line 92: print(f"Error reading array of id {id}:", e)
PrintError(n) ==
    [kind |-> "error", id |-> n]

\* line 105: file.write appends the row to the file
WriteRow(rows, row) ==
    Append(rows, row)

\* one iteration of the loop of line 85 whose read (line 90) returns arr:
\* lines 85-90 and 94-106
ReadOkWith(arr) ==
    /\ pc = "loop"
    /\ wind_pos < Len(windows)
    /\ LET wind == windows[wind_pos + 1]
           st == Reduce(arr, nodata_value)
       IN  /\ wind_pos' = wind_pos + 1
           /\ stdout' = Append(stdout, PrintWindow(wind))
           /\ array' = arr
           /\ min_cover' = st.min_cover
           /\ max_cover' = st.max_cover
           /\ avg_cover' = st.avg_cover
           /\ file' = [file EXCEPT !.rows = WriteRow(@, CsvRow(id, st))]
           /\ id' = id + 1
    /\ UNCHANGED <<pc, exc, dataset, nb_of_rows, nb_of_cols, windows, nodata_value>>

\* a successful iteration of the script's loop
ReadOk ==
    \E arr \in ReadArrays : ReadOkWith(arr)

ReadFailCountsId ==
    /\ pc = "loop"
    /\ wind_pos < Len(windows)
    /\ wind_pos' = wind_pos + 1
    /\ stdout' = Append(Append(stdout, PrintWindow(windows[wind_pos + 1])),
                        PrintError(id))
    /\ id' = id + 1
    /\ UNCHANGED <<pc, exc, dataset, nb_of_rows, nb_of_cols, windows, nodata_value,
                   file, array, min_cover, max_cover, avg_cover>>

ReadFailBreaks ==
    /\ pc = "loop"
    /\ wind_pos < Len(windows)
    /\ wind_pos' = Len(windows)
    /\ stdout' = Append(Append(stdout, PrintWindow(windows[wind_pos + 1])),
                        PrintError(id))
    /\ UNCHANGED <<pc, exc, dataset, nb_of_rows, nb_of_cols, windows, nodata_value,
                   id, file, array, min_cover, max_cover, avg_cover>>

\* one iteration of the loop whose read raises: lines 85-93
ReadFail ==
    /\ pc = "loop"
    /\ wind_pos < Len(windows)
    /\ wind_pos' = wind_pos + 1
    /\ stdout' = Append(Append(stdout, PrintWindow(windows[wind_pos + 1])),
                        PrintError(id))
    /\ UNCHANGED <<pc, exc, dataset, nb_of_rows, nb_of_cols, windows, nodata_value,
                   id, file, array, min_cover, max_cover, avg_cover>>

\* the for loop of line 85 is exhausted: the with blocks close the file and
\* the raster, and the script ends
LoopExit ==
    /\ pc = "loop"
    /\ wind_pos = Len(windows)
    /\ file' = [file EXCEPT !.open = FALSE]
    /\ pc' = "done"
    /\ UNCHANGED <<exc, dataset, nb_of_rows, nb_of_cols, windows, nodata_value, id,
                   wind_pos, stdout, array, min_cover, max_cover, avg_cover>>

Next ==
    \/ S3FetchOk
    \/ S3FetchFail
    \/ RasterOpenOk
    \/ RasterOpenFail
    \/ CallCreateWindows
    \/ CsvOpen
    \/ ReadOk
    \/ ReadFail
    \/ LoopExit

Spec == Init /\ [][Next]_vars

(***************************************************************************)
(* create_windows on its own: any extent, any grid shape                   *)
(***************************************************************************)
TilerInit ==
    /\ pc = "create_windows"
    /\ exc = "none"
    /\ dataset \in [height : 1..MaxHeight, width : 1..MaxWidth, nodata : {RasterNodata}]
    /\ nb_of_rows \in 1..MaxNbRows
    /\ nb_of_cols \in 1..MaxNbCols
    /\ Unbound

\* lines 66-67 with a negative width or height: a Window constructor that
\* validates its lengths raises, and create_windows ends with that exception
CreateWindowsRaises ==
    /\ pc = "create_windows"
    /\ \E k \in 1..(nb_of_rows * nb_of_cols) :
          LET w == CreateWindows(dataset, nb_of_rows, nb_of_cols)[k]
          IN  w.width < 0 \/ w.height < 0
    /\ pc' = "aborted"
    /\ exc' = "create_windows"
    /\ UNCHANGED <<dataset, nb_of_rows, nb_of_cols, windows, nodata_value, id,
                   file, wind_pos, stdout, array, min_cover, max_cover, avg_cover>>

TilerNext ==
    \/ CallCreateWindows
    \/ CreateWindowsRaises

TilerSpec == TilerInit /\ [][TilerNext]_vars

(***************************************************************************)
(* The loop body on its own: a one-window grid, any window array and any   *)
(* nodata value                                                            *)
(***************************************************************************)
RECURSIVE ArraysOfLen(_)
ArraysOfLen(n) ==
    IF n = 0 THEN {<<>>}
    ELSE {Append(a, p) : a \in ArraysOfLen(n - 1), p \in SamplePixels}

SampleArrays == UNION {ArraysOfLen(n) : n \in 0..MaxArrayLen}

ReducerInit ==
    /\ pc = "loop"
    /\ exc = "none"
    /\ dataset \in [height : {1}, width : 1..MaxArrayLen, nodata : SampleNodata]
    /\ nb_of_rows = 1
    /\ nb_of_cols = 1
    /\ windows = CreateWindows(dataset, nb_of_rows, nb_of_cols)
    /\ nodata_value = dataset.nodata
    /\ id = 1
    /\ file = [created |-> TRUE, open |-> TRUE, header |-> TRUE, rows |-> <<>>]
    /\ wind_pos = 0
    /\ stdout = <<>>
    /\ array = <<>>
    /\ min_cover = None
    /\ max_cover = None
    /\ avg_cover = None

\* a successful iteration whose read returns any of the sample arrays
ReadSample ==
    \E arr \in SampleArrays : ReadOkWith(arr)

ReducerNext ==
    \/ ReadSample
    \/ ReadFail
    \/ LoopExit

ReducerSpec == ReducerInit /\ [][ReducerNext]_vars

(***************************************************************************)
(* Properties of create_windows (checked under TilerSpec)                  *)
(***************************************************************************)
\* create_windows has returned its list
Returned == pc = "csv_open"
\* the call of create_windows is over, with a list or with an exception
CallOver == pc \in {"csv_open", "aborted"}

\* the window the grid holds for grid row i, grid column j under row-major order
At(i, j) == windows[i * nb_of_cols + j + 1]

GridRows == 0..(nb_of_rows - 1)
GridCols == 0..(nb_of_cols - 1)

\* the cells of the raster, and the cells a window contains
ExtentCells == (0..(dataset.height - 1)) \X (0..(dataset.width - 1))
CellsOf(w) ==
    (w.row_off..(w.row_off + w.height - 1)) \X (w.col_off..(w.col_off + w.width - 1))

\* the least c with c * b >= a: the ceiling of a / b, stated without division
CeilOf(a, b) == CHOOSE c \in 0..a : c * b >= a /\ (c - 1) * b < a

\* nb_rows and nb_cols do not exceed the extent
WellFormed == nb_of_rows <= dataset.height /\ nb_of_cols <= dataset.width

\* C1: for nb_rows <= height and nb_cols <= width the windows partition the
\* raster: every cell of the extent lies in exactly one window and no window
\* contains a cell outside the extent.
C1_Partition ==
    (CallOver /\ WellFormed) =>
        /\ Returned
        /\ \A cell \in ExtentCells :
              Cardinality({k \in 1..Len(windows) : cell \in CellsOf(windows[k])}) = 1
        /\ \A k \in 1..Len(windows) : CellsOf(windows[k]) \subseteq ExtentCells

\* C2: for nb_rows <= height and nb_cols <= width every window has
\* non-negative offsets and sizes and lies inside the extent.
C2_WindowsInsideExtent ==
    (CallOver /\ WellFormed) =>
        /\ Returned
        /\ \A k \in 1..Len(windows) :
            /\ windows[k].row_off >= 0 /\ windows[k].col_off >= 0
            /\ windows[k].height >= 0 /\ windows[k].width >= 0
            /\ windows[k].row_off + windows[k].height <= dataset.height
            /\ windows[k].col_off + windows[k].width <= dataset.width

\* C3: create_windows returns nb_rows * nb_cols windows in row-major order:
\* the window at position i * nb_cols + j has row offset i * tile_height and
\* column offset j * tile_width.
C3_RowMajorOrder ==
    Returned =>
        /\ Len(windows) = nb_of_rows * nb_of_cols
        /\ \A i \in GridRows, j \in GridCols :
              /\ At(i, j).row_off = i * CeilOf(dataset.height, nb_of_rows)
              /\ At(i, j).col_off = j * CeilOf(dataset.width, nb_of_cols)

\* a grid with several rows and columns, not square, whose tiles are not square
C3_Witness ==
    /\ Returned
    /\ nb_of_rows = 2 /\ nb_of_cols = 3
    /\ dataset.height = 4 /\ dataset.width = 3
    /\ At(1, 0).row_off = 2 /\ At(1, 0).col_off = 0
    /\ At(0, 2).row_off = 0 /\ At(0, 2).col_off = 2

\* C4: windows outside the last grid row have height ceil(height / nb_rows),
\* windows outside the last grid column have width ceil(width / nb_cols);
\* last-row windows have height = extent height - row offset and last-column
\* windows width = extent width - column offset, so the last row ends at the
\* bottom edge and the last column at the right edge.
C4_TileSizes ==
    Returned =>
        \A i \in GridRows, j \in GridCols :
            /\ (i # nb_of_rows - 1) =>
                   At(i, j).height = CeilOf(dataset.height, nb_of_rows)
            /\ (j # nb_of_cols - 1) =>
                   At(i, j).width = CeilOf(dataset.width, nb_of_cols)
            /\ (i = nb_of_rows - 1) =>
                   /\ At(i, j).height = dataset.height - At(i, j).row_off
                   /\ At(i, j).row_off + At(i, j).height = dataset.height
            /\ (j = nb_of_cols - 1) =>
                   /\ At(i, j).width = dataset.width - At(i, j).col_off
                   /\ At(i, j).col_off + At(i, j).width = dataset.width

\* a grid whose rows and columns do not divide the extent: interior tiles of
\* the ceiling size and a smaller remainder tile in the last row and column
C4_Witness ==
    /\ Returned
    /\ dataset.height = 5 /\ nb_of_rows = 2
    /\ dataset.width = 5 /\ nb_of_cols = 3
    /\ At(0, 0).height = 3 /\ At(1, 0).height = 2
    /\ At(0, 1).width = 2 /\ At(0, 2).width = 1

\* C10: for every nb_rows > 0 and nb_cols > 0, degenerate ones included, the
\* heights of the windows of any grid column sum to the extent height, the
\* widths of the windows of any grid row sum to the extent width, and the
\* signed areas of all windows sum to height * width.
C10_SizesSumToExtent ==
    Returned =>
        /\ \A j \in GridCols :
              SeqSum([k \in 1..nb_of_rows |-> At(k - 1, j).height]) = dataset.height
        /\ \A i \in GridRows :
              SeqSum([k \in 1..nb_of_cols |-> At(i, k - 1).width]) = dataset.width
        /\ SeqSum([k \in 1..Len(windows) |-> windows[k].height * windows[k].width])
              = dataset.height * dataset.width

\* a degenerate grid: more rows than the raster has, the last row of negative
\* height
C10_Witness ==
    /\ Returned
    /\ nb_of_rows > dataset.height
    /\ nb_of_cols > dataset.width
    /\ \E j \in GridCols : At(nb_of_rows - 1, j).height < 0
    /\ \E i \in GridRows : At(i, nb_of_cols - 1).width = 0

(***************************************************************************)
(* Properties of the per-window reduction (checked under ReducerSpec)      *)
(***************************************************************************)
LastRow == file.rows[Len(file.rows)]

\* positions of the pixels of the last array read that differ from nodata
ValidPositions == {k \in 1..Len(array) : array[k] \notin nodata_value}

AllAbsent == min_cover = None /\ max_cover = None /\ avg_cover = None
AllPresent == min_cover # None /\ max_cover # None /\ avg_cover # None

ErrorsPrinted == SelectSeq(stdout, LAMBDA e : e.kind = "error")
WindowsPrinted == SelectSeq(stdout, LAMBDA e : e.kind = "window")

\* C5: min, max and mean are all absent if and only if every pixel of the
\* window equals the nodata value; the all-nodata window does not raise and
\* its row, with the three absent values, is written; in every other case
\* all three are present.
C5_AbsentIffAllNodata ==
    /\ (pc = "done" /\ ErrorsPrinted = <<>>) => Len(file.rows) = 1
    /\ file.rows # <<>> =>
          /\ LastRow = [array |-> id - 1, minimum_cover |-> min_cover,
                        maximum_cover |-> max_cover, average_cover |-> avg_cover]
          /\ AllAbsent <=> (ValidPositions = {})
          /\ (ValidPositions # {}) => AllPresent

\* a window of several pixels, all nodata, whose row of absent values is in
\* the file
C5_Witness ==
    /\ array = <<255, 255, 255>>
    /\ nodata_value = {255}
    /\ file.rows = <<[array |-> 1, minimum_cover |-> None,
                      maximum_cover |-> None, average_cover |-> None]>>

\* C6: with at least one pixel different from nodata, min and max are the
\* minimum and maximum of the pixels different from nodata and mean is their
\* sum over their number, rounded to 2 decimals (the nearest hundredth), never
\* divided by the full window size.
C6_StatsOverValidPixels ==
    (file.rows # <<>> /\ ValidPositions # {}) =>
        LET n == Cardinality(ValidPositions)
            total == SeqSum([k \in 1..Len(array) |->
                               IF k \in ValidPositions THEN array[k] ELSE 0])
        IN  /\ \E k \in ValidPositions :
                  /\ min_cover = {array[k]}
                  /\ \A l \in ValidPositions : array[k] <= array[l]
            /\ \E k \in ValidPositions :
                  /\ max_cover = {array[k]}
                  /\ \A l \in ValidPositions : array[k] >= array[l]
            /\ \E a \in 0..(100 * 255) :
                  /\ avg_cover = {a}
                  /\ 2 * (100 * total - a * n) <= n
                  /\ 2 * (a * n - 100 * total) <= n
            /\ LastRow.minimum_cover = min_cover
            /\ LastRow.maximum_cover = max_cover
            /\ LastRow.average_cover = avg_cover

\* the mixed array [255, 255, 0, 100] with nodata 255: min 0, max 100, mean 50.0
C6_Witness ==
    /\ array = <<255, 255, 0, 100>>
    /\ nodata_value = {255}
    /\ file.rows = <<[array |-> 1, minimum_cover |-> {0},
                      maximum_cover |-> {100}, average_cover |-> {5000}]>>

(***************************************************************************)
(* Properties of the script (checked under Spec)                           *)
(***************************************************************************)
\* C7, state part: the loop has printed exactly the windows it has taken, in
\* grid order; the file holds one row per window read and none per failed
\* read; the run ends only after the last window.
C7_State ==
    pc \in {"loop", "done"} =>
        /\ wind_pos <= Len(windows)
        /\ WindowsPrinted = [k \in 1..wind_pos |-> PrintWindow(windows[k])]
        /\ Len(file.rows) + Len(ErrorsPrinted) = wind_pos
        /\ pc = "done" => wind_pos = Len(windows)

\* C7, step part: every step of the loop either takes the next window or, after
\* the last one, ends the run normally; a step that prints an error writes
\* nothing, any other step that takes a window appends exactly its row.
C7_Step ==
    pc = "loop" =>
        \/ /\ pc' = "done"
           /\ wind_pos = Len(windows)
           /\ file'.rows = file.rows
        \/ /\ pc' = "loop"
           /\ wind_pos' = wind_pos + 1
           /\ \/ /\ Len(ErrorsPrinted') = Len(ErrorsPrinted) + 1
                 /\ file' = file
              \/ /\ ErrorsPrinted' = ErrorsPrinted
                 /\ file'.rows = Append(file.rows,
                                        CsvRow(id, Reduce(array', nodata_value)))

\* C7: whatever reads fail, the loop visits every window in grid order and
\* ends normally, writing one row per window read, in order, and no row for
\* a window whose read failed.
C7_FaultIsolation == [](C7_State) /\ [][C7_Step]_vars

\* a finished run whose first and third reads failed and whose second and
\* fourth succeeded
C7_Witness ==
    /\ pc = "done"
    /\ Len(windows) = 4
    /\ Len(stdout) = 6
    /\ stdout[2].kind = "error"
    /\ stdout[5].kind = "error"
    /\ Len(file.rows) = 2

\* C8: the id counter starts at 1 and moves only when a row is written: the
\* rows carry the ids 1, 2, ..., n with no gap or repeat, n being the number of
\* windows read, and an error message carries the id of the next row.
C8_ConsecutiveIds ==
    pc \in {"loop", "done"} =>
        /\ id = Len(file.rows) + 1
        /\ \A k \in 1..Len(file.rows) : file.rows[k].array = k
        /\ Len(file.rows) = wind_pos - Len(ErrorsPrinted)
        /\ \A k \in 1..Len(stdout) :
              stdout[k].kind = "error" =>
                  stdout[k].id = 1 + Len(SelectSeq(SubSeq(stdout, 1, k),
                                                   LAMBDA e : e.kind = "window"))
                                   - Len(SelectSeq(SubSeq(stdout, 1, k),
                                                   LAMBDA e : e.kind = "error"))

\* a finished run over four windows whose third read alone failed: three rows,
\* ids 1..3
C8_Witness ==
    /\ pc = "done"
    /\ Len(windows) = 4
    /\ Len(stdout) = 5
    /\ stdout[4] = PrintError(3)
    /\ Len(file.rows) = 3
    /\ file.rows[3].array = 3

\* C9: a setup failure (location fetch or raster open) ends the run before
\* create_windows: no window is computed or read and the CSV file is never
\* created; nothing but a setup failure ends the run abnormally.
C9_SetupFailureAborts ==
    /\ exc # "none" =>
          /\ pc = "aborted"
          /\ windows = <<>>
          /\ wind_pos = 0
          /\ stdout = <<>>
          /\ file = NoFile
    /\ pc = "aborted" => exc \in {"s3_fetch", "raster_open"}

\* the location fetch succeeded and the raster could not be opened
C9_Witness ==
    /\ pc = "aborted"
    /\ exc = "raster_open"
    /\ file = NoFile

====
